---------------------------- MODULE Spec2Model ----------------------------
(***************************************************************************)
(* A model of src/app/main.ts: the object store (writeGitObject,           *)
(* readGitObject, inflateObject), the tree codec (parseTreeContent), the   *)
(* tree assembler and walker (writeTree, lsTree), the commit builder       *)
(* (commitTree), the pack decoder (processPackfile) and the module entry   *)
(* (main).                                                                 *)
(*                                                                         *)
(* Buffers and strings are sequences of byte values (0..255); a string     *)
(* literal of the source is written as its ASCII codes.                    *)
(***************************************************************************)
EXTENDS Integers, Sequences, FiniteSets, TLC

VARIABLES
    objects,   \* .git/objects: hex digest -> bytes of the file
    rt,        \* the object-store exercise: the last writeGitObject and read-back
    infl,      \* inflateObject applied to one stored file
    tp,        \* parseTreeContent applied to one tree payload
    pack,      \* processPackfile: packData, offset, loop counter
    procs,     \* the invocations of a command: position, frames, pending write
    stdout,    \* what the process has written to standard output
    exited,    \* process.exit(1) was called
    fsys,      \* the working directory that write-tree and hash-object read
    argv,      \* the command line of the run
    ls         \* lsTree: the call stack of the walk

vars == <<objects, rt, infl, tp, pack, procs, stdout, exited, fsys, argv, ls>>

\* The value of a variable in a specification that does not use it.
Idle == <<>>

\* What each part of the model leaves alone.
StoreFrame == <<infl, tp, pack, procs, stdout, exited, fsys, argv, ls>>
InflateFrame == <<objects, rt, tp, pack, procs, stdout, exited, fsys, argv, ls>>
ParseTreeFrame == <<objects, rt, infl, pack, procs, stdout, exited, fsys, argv, ls>>
PackFrame == <<rt, infl, tp, procs, stdout, exited, fsys, argv, ls>>
CommandFrame == <<rt, infl, tp, pack, ls>>
LsTreeFrame == <<rt, infl, tp, pack, procs, fsys, argv>>

-----------------------------------------------------------------------------
(* Bytes and text                                                          *)

NUL == 0
SP == 32
TAB == 9
LF == 10

BlobStr == <<98, 108, 111, 98>>
TreeStr == <<116, 114, 101, 101>>
CommitStr == <<99, 111, 109, 109, 105, 116>>
UndefinedStr == <<117, 110, 100, 101, 102, 105, 110, 101, 100>>

Kinds == {BlobStr, TreeStr, CommitStr}

\* buffer.indexOf(byte, from): the first index >= from (0-based) holding byte, or -1.
IndexOf(buf, byte, from) ==
    LET hits == {k \in from..(Len(buf) - 1) : buf[k + 1] = byte}
    IN IF hits = {} THEN -1 ELSE CHOOSE k \in hits : \A j \in hits : k <= j

\* buffer.subarray(start, end): 0-based, end exclusive, both clamped to the buffer.
Subarray(buf, start, end) ==
    LET s == IF start > Len(buf) THEN Len(buf) ELSE start
        e == IF end > Len(buf) THEN Len(buf) ELSE end
    IN IF e <= s THEN <<>> ELSE SubSeq(buf, s + 1, e)

\* buffer.toString("utf-8"): ASCII bytes decode to themselves, a byte that starts
\* no valid sequence decodes to U+FFFD.
Utf8Decode(buf) == <<>> \o [k \in 1..Len(buf) |-> IF buf[k] < 128 THEN buf[k] ELSE 65533]

\* `${n}` for a non-negative integer: its decimal digits.
RECURSIVE DecStr(_)
DecStr(n) == IF n < 10 THEN <<48 + n>> ELSE DecStr(n \div 10) \o <<48 + (n % 10)>>

\* str.split(sep) for a one-character separator.
RECURSIVE Split(_, _)
Split(str, sep) ==
    LET k == IndexOf(str, sep, 0)
    IN IF k = -1 THEN <<str>>
       ELSE <<Subarray(str, 0, k)>> \o Split(Subarray(str, k + 1, Len(str)), sep)

IsDigit(c) == c >= 48 /\ c <= 57
IsHexDigit(c) == IsDigit(c) \/ (c >= 97 /\ c <= 102) \/ (c >= 65 /\ c <= 70)
HexVal(c) == IF IsDigit(c) THEN c - 48 ELSE IF c >= 97 THEN c - 87 ELSE c - 55
IsSpace(c) == c \in {9, 10, 11, 12, 13, 32}

RECURSIVE SkipSpace(_)
SkipSpace(str) ==
    IF str # <<>> /\ IsSpace(Head(str)) THEN SkipSpace(Tail(str)) ELSE str

\* The value of the longest prefix of str made of digits of the radix; -1 if none.
RECURSIVE DigitsValue(_, _, _)
DigitsValue(str, radix, acc) ==
    IF str # <<>> /\ IsHexDigit(Head(str)) /\ HexVal(Head(str)) < radix
    THEN DigitsValue(Tail(str), radix, (IF acc = -1 THEN 0 ELSE acc) * radix + HexVal(Head(str)))
    ELSE acc

\* parseInt(str) with no radix: white space is skipped, then an optional sign, an
\* optional 0x, and the longest run of digits; NaN when there is no digit.
NaN == [nan |-> TRUE, val |-> 0]
ParseInt(str) ==
    LET s0 == SkipSpace(str)
        neg == s0 # <<>> /\ Head(s0) = 45
        s1 == IF s0 # <<>> /\ Head(s0) \in {43, 45} THEN Tail(s0) ELSE s0
        hex == Len(s1) >= 2 /\ s1[1] = 48 /\ s1[2] \in {120, 88}
        v == IF hex THEN DigitsValue(Tail(Tail(s1)), 16, -1) ELSE DigitsValue(s1, 10, -1)
    IN IF v = -1 THEN NaN ELSE [nan |-> FALSE, val |-> IF neg THEN 0 - v ELSE v]

-----------------------------------------------------------------------------
(* Digest, hex and compression                                             *)

HashLen == 20

\* crypto.createHash("sha1").update(store).digest(): SHA-1 is not computable in
\* the model's arithmetic; it is modelled as a deterministic function of all the
\* bytes and their positions giving HashLen bytes: two running sums a and c,
\* whose bytes are the first six of the digest and are mixed into the others.
HashMod == 16777213

\* The sum of terms[lo..hi], modulo m.
RECURSIVE SumMod(_, _, _, _)
SumMod(terms, lo, hi, m) ==
    IF lo > hi THEN 0
    ELSE IF lo = hi THEN terms[lo] % m
    ELSE LET mid == (lo + hi) \div 2
         IN (SumMod(terms, lo, mid, m) + SumMod(terms, mid + 1, hi, m)) % m

Sha1(store) ==
    LET n == Len(store)
        ta == <<>> \o [k \in 1..n |-> (store[k] + 1) * ((k * 7919 + 13) % 65521)]
        tc == <<>> \o [k \in 1..n |-> (store[k] + k) * ((k * k * 31 + 17) % 65519)]
        a == (SumMod(ta, 1, n, HashMod) + 40503 * n + 7) % HashMod
        c == (SumMod(tc, 1, n, HashMod) + 3) % HashMod
        byte(i) == CASE i = 1 -> a % 256
                     [] i = 2 -> (a \div 256) % 256
                     [] i = 3 -> (a \div 65536) % 256
                     [] i = 4 -> c % 256
                     [] i = 5 -> (c \div 256) % 256
                     [] i = 6 -> (c \div 65536) % 256
                     [] OTHER -> ((a \div i) + (c \div (2 * i + 1)) + 11 * i) % 256
    IN <<>> \o [i \in 1..HashLen |-> byte(i)]

HexDigit(n) == IF n < 10 THEN 48 + n ELSE 87 + n

\* buffer.toString("hex") / digest("hex").
ToHex(buf) ==
    <<>> \o [k \in 1..(2 * Len(buf)) |->
        IF k % 2 = 1 THEN HexDigit(buf[(k + 1) \div 2] \div 16)
        ELSE HexDigit(buf[k \div 2] % 16)]

\* Buffer.from(str, "hex"): one byte per pair of hex digits, up to the first
\* pair that is not hex.
FromHex(str) ==
    LET pairs == Len(str) \div 2
        good(k) == IsHexDigit(str[2 * k - 1]) /\ IsHexDigit(str[2 * k])
        bad == {k \in 1..pairs : ~good(k)}
        n == IF bad = {} THEN pairs ELSE (CHOOSE k \in bad : \A j \in bad : k <= j) - 1
    IN <<>> \o [k \in 1..n |-> HexVal(str[2 * k - 1]) * 16 + HexVal(str[2 * k])]

\* zlib: a compressed member is self-delimiting and carries a check value. The
\* model's member is two header bytes, the length, the data and a check byte.
ZHeader == <<120, 156>>
ZCheck(data) == (1 + SumMod(data, 1, Len(data), 251)) % 251

Deflate(data) == ZHeader \o <<Len(data)>> \o data \o <<ZCheck(data)>>

\* zlib.inflate(buffer): the data of the member the buffer starts with, whatever
\* follows the member is ignored; an error when the buffer starts with no
\* complete member. consumed is the length of the member.
InflateError == [ok |-> FALSE, data |-> <<>>, consumed |-> 0]
Inflate(buf) ==
    IF Len(buf) < 4 \/ SubSeq(buf, 1, 2) # ZHeader THEN InflateError
    ELSE LET n == buf[3]
             data == SubSeq(buf, 4, 3 + n)
         IN IF Len(buf) < n + 4 THEN InflateError
            ELSE IF buf[n + 4] # ZCheck(data) THEN InflateError
            ELSE [ok |-> TRUE, data |-> data, consumed |-> n + 4]

-----------------------------------------------------------------------------
(* The object store                                                        *)

\* writeGitObject, lines 242-243: `${type} ${content.length}\0` then the content.
ObjectStoreBytes_DeclaresStoreLength(type, content) ==
    type \o <<SP>> \o DecStr(Len(type) + 2 + Len(content)) \o <<NUL>> \o content

ObjectStoreBytes(type, content) ==
    type \o <<SP>> \o DecStr(Len(content)) \o <<NUL>> \o content

\* writeGitObject: the hex digest it returns.
ObjectHash(type, content) == ToHex(Sha1(ObjectStoreBytes(type, content)))

\* A store that keeps trees and commits and drops the blobs it is given.
PutObject_DropsBlobs(objs, type, content) ==
    IF type = BlobStr THEN objs
    ELSE [h \in (DOMAIN objs) \cup {ToHex(Sha1(type \o <<SP>> \o DecStr(Len(content)) \o <<NUL>> \o content))} |->
             IF h \in DOMAIN objs THEN objs[h]
             ELSE Deflate(type \o <<SP>> \o DecStr(Len(content)) \o <<NUL>> \o content)]

\* writeGitObject's effect on .git/objects once its writeFile has completed.
PutObject(objs, type, content) ==
    LET hash == ObjectHash(type, content)
        file == Deflate(ObjectStoreBytes(type, content))
    IN [h \in (DOMAIN objs) \cup {hash} |-> IF h = hash THEN file ELSE objs[h]]

\* readGitObject: the bytes of the file, or a rejection when there is none.
ReadGitObject(objs, hash) ==
    IF hash \in DOMAIN objs THEN [ok |-> TRUE, data |-> objs[hash]]
    ELSE [ok |-> FALSE, data |-> <<>>]

\* inflateObject: {type, content}, or a thrown error.
ObjError(why) == [ok |-> FALSE, type |-> <<>>, content |-> <<>>, err |-> why]
InflateObject(buffer) ==
    LET z == Inflate(buffer)
        inflated == z.data
        nullByteIndex == IndexOf(inflated, NUL, 0)
        header == Utf8Decode(Subarray(inflated, 0, nullByteIndex))
        fields == Split(header, SP)
        type == fields[1]
        size == IF Len(fields) >= 2 THEN fields[2] ELSE UndefinedStr
        content == Subarray(inflated, nullByteIndex + 1, Len(inflated))
        contentSize == ParseInt(size)
    IN IF ~z.ok THEN ObjError("inflate")
       ELSE IF nullByteIndex = -1 THEN ObjError("no null byte")
       ELSE IF contentSize.nan \/ Len(content) # contentSize.val THEN ObjError("size mismatch")
       ELSE [ok |-> TRUE, type |-> type, content |-> content, err |-> ""]

\* readGitObject followed by inflateObject, as catFile, lsTree and checkoutTree do.
ReadObject(objs, hash) ==
    LET r == ReadGitObject(objs, hash)
    IN IF r.ok THEN InflateObject(r.data) ELSE ObjError("not found")

EmptyStore == [h \in {} |-> <<>>]

-----------------------------------------------------------------------------
(* SpecStore: writeGitObject followed by readGitObject and inflateObject   *)

MaxObjects == 2

\* The payloads written: the empty one, NUL and space bytes, text that looks
\* like a header, and one whose length has two decimal digits.
Payloads ==
    { <<>>, <<NUL>>, <<SP>>, <<97>>, <<NUL, SP>>, <<97, NUL, 98>>,
      <<49, NUL, 97>>, BlobStr \o <<SP, 48, NUL>>,
      <<104, 101, 108, 108, 111, SP, 119, 111, 114, 108, 100, LF>> }

RtIdle == [op |-> "idle", type |-> <<>>, content |-> <<>>, hash |-> <<>>, got |-> ObjError("")]

InitStore ==
    /\ objects = EmptyStore
    /\ rt = RtIdle
    /\ infl = Idle /\ tp = Idle /\ pack = Idle /\ procs = Idle
    /\ stdout = <<>> /\ exited = FALSE /\ fsys = Idle /\ argv = Idle /\ ls = Idle

StoreWrite ==
    \E type \in Kinds, content \in Payloads :
        LET hash == ObjectHash(type, content)
        IN /\ Cardinality(DOMAIN objects) < MaxObjects
           /\ objects' = PutObject(objects, type, content)
           /\ rt' = [RtIdle EXCEPT !.op = "put", !.type = type, !.content = content,
                                   !.hash = hash]
        /\ UNCHANGED StoreFrame

StoreRead ==
    /\ rt.op = "put"
    /\ rt' = [rt EXCEPT !.op = "got", !.got = ReadObject(objects, rt.hash)]
    /\ UNCHANGED <<objects, StoreFrame>>

NextStore == StoreWrite \/ StoreRead

SpecStore == InitStore /\ [][NextStore]_vars

\* C1: reading back the object stored under the digest that writeGitObject(K, P)
\* returned, and inflating it, gives exactly (K, P), for every kind K and every
\* payload P, the empty one and those holding NUL or space bytes included.
C1_RoundTrip ==
    rt.op = "got" =>
        /\ rt.got.ok
        /\ rt.got.type = rt.type
        /\ rt.got.content = rt.content

C1_Witness ==
    /\ rt.op = "got"
    /\ rt.type = CommitStr
    /\ rt.content = <<97, NUL, 98>>
    /\ rt.got.ok
    /\ Cardinality(DOMAIN objects) = 2

-----------------------------------------------------------------------------
(* SpecInflate: inflateObject applied to one file of .git/objects          *)

MaxDeclared == 2
BlubStr == <<98, 108, 117, 98>>

\* Length texts of a header: the decimal digits of a length, and texts that are
\* not a decimal number ("1x", "x1", "", "0x1", "+1").
SizeTexts ==
    {DecStr(n) : n \in 0..MaxDeclared}
        \cup {<<49, 120>>, <<120, 49>>, <<>>, <<48, 120, 49>>, <<43, 49>>}

RawPayloads == {<<>>, <<97>>, <<97, NUL>>, <<97, 98>>}

\* The decoded bytes a file may hold: a kind, then or not a space and a length
\* text, then or not the NUL, then a payload.
RawObjects ==
    { kind \o (IF withSize THEN <<SP>> \o size ELSE <<>>)
           \o (IF withNul THEN <<NUL>> ELSE <<>>) \o payload :
        kind \in Kinds \cup {BlubStr}, size \in SizeTexts, withSize \in BOOLEAN,
        withNul \in BOOLEAN, payload \in RawPayloads }

\* The files: a compressed member for each of them, and bytes that are none.
StoredFiles ==
    {Deflate(raw) : raw \in RawObjects}
        \cup {<<>>, BlobStr, Subarray(Deflate(BlobStr), 0, 5)}

InitInflate ==
    /\ infl \in {[buffer |-> f, done |-> FALSE, out |-> ObjError("")] : f \in StoredFiles}
    /\ objects = EmptyStore /\ rt = Idle /\ tp = Idle /\ pack = Idle /\ procs = Idle
    /\ stdout = <<>> /\ exited = FALSE /\ fsys = Idle /\ argv = Idle /\ ls = Idle

InflateApply ==
    /\ ~infl.done
    /\ infl' = [infl EXCEPT !.done = TRUE, !.out = InflateObject(infl.buffer)]
    /\ UNCHANGED InflateFrame

NextInflate == InflateApply

SpecInflate == InitInflate /\ [][NextInflate]_vars

\* What the claim takes for a readable object: '<kind> <decimal length>', a NUL,
\* and a payload of exactly the declared length.
IsDecimal(text) == text # <<>> /\ \A k \in 1..Len(text) : IsDigit(text[k])

StrictObject(inflated) ==
    LET n == IndexOf(inflated, NUL, 0)
        header == Subarray(inflated, 0, n)
        s == IndexOf(header, SP, 0)
        kind == Subarray(header, 0, s)
        size == Subarray(header, s + 1, Len(header))
    IN /\ n # -1
       /\ s # -1
       /\ kind \in Kinds
       /\ IsDecimal(size)
       /\ DigitsValue(size, 10, -1) = Len(inflated) - (n + 1)

\* C7: inflateObject returns (kind, payload) only when the decoded header is
\* '<kind> <decimal length>' with kind in {blob, tree, commit} and the payload
\* has the declared length; for every other file (no NUL, no length, a length
\* text that is not decimal, an unknown kind, a length mismatch) it fails.
C7_ReadIntegrity ==
    (infl.done /\ infl.out.ok) =>
        /\ Inflate(infl.buffer).ok
        /\ StrictObject(Inflate(infl.buffer).data)

-----------------------------------------------------------------------------
(* The tree codec                                                          *)

ModeFile == <<49, 48, 48, 54, 52, 52>>
ModeDir == <<52, 48, 48, 48, 48>>

\* parseTreeContent: the loop of lines 263-286 from `position`, `entries` so far.
RECURSIVE ParseTreeFrom(_, _, _)
ParseTreeFrom(buffer, position, entries) ==
    IF ~(position < Len(buffer)) THEN entries
    ELSE LET spaceIndex == IndexOf(buffer, SP, position)
             mode == Utf8Decode(Subarray(buffer, position, spaceIndex))
             nullIndex == IndexOf(buffer, NUL, spaceIndex + 1)
             name == Utf8Decode(Subarray(buffer, spaceIndex + 1, nullIndex))
             hash == ToHex(Subarray(buffer, nullIndex + 1, nullIndex + 1 + HashLen))
         IN IF spaceIndex = -1 THEN entries
            ELSE IF nullIndex = -1 THEN entries
            ELSE ParseTreeFrom(buffer, nullIndex + 1 + HashLen,
                               Append(entries, [mode |-> mode, hash |-> hash, name |-> name]))

\* parseTreeContent: it has no throw statement; it returns the entries.
ParseTreeContent(buffer) == ParseTreeFrom(buffer, 0, <<>>)

-----------------------------------------------------------------------------
(* SpecParseTree: parseTreeContent applied to one tree payload             *)

MaxChunks == 2

\* A digest of a stored object; as any digest may, it holds a space and a NUL.
ChunkHash == <<SP, NUL>> \o SubSeq(Sha1(BlobStr), 3, HashLen)

\* The pieces of a payload: an entry, whole or with its space, its NUL or the
\* end of its digest missing.
Chunks ==
    [ mode : {ModeFile, ModeDir}, name : {<<97>>, <<98, SP, 99>>},
      sp : BOOLEAN, nul : BOOLEAN, hashLen : {HashLen, HashLen - 1, 3} ]

ChunkBytes(c) ==
    c.mode \o (IF c.sp THEN <<SP>> ELSE <<>>) \o c.name
           \o (IF c.nul THEN <<NUL>> ELSE <<>>) \o SubSeq(ChunkHash, 1, c.hashLen)

RECURSIVE ChunksBytes(_)
ChunksBytes(cs) == IF cs = <<>> THEN <<>> ELSE ChunkBytes(Head(cs)) \o ChunksBytes(Tail(cs))

ChunkLists == UNION {[1..k -> Chunks] : k \in 1..MaxChunks}

InitParseTree ==
    /\ tp \in {[chunks |-> cs, buffer |-> ChunksBytes(cs), done |-> FALSE,
                threw |-> FALSE, entries |-> <<>>] : cs \in ChunkLists}
    /\ objects = EmptyStore /\ rt = Idle /\ infl = Idle /\ pack = Idle /\ procs = Idle
    /\ stdout = <<>> /\ exited = FALSE /\ fsys = Idle /\ argv = Idle /\ ls = Idle

ParseTreeApply ==
    /\ ~tp.done
    /\ tp' = [tp EXCEPT !.done = TRUE, !.entries = ParseTreeContent(tp.buffer)]
    /\ UNCHANGED ParseTreeFrame

NextParseTree == ParseTreeApply

SpecParseTree == InitParseTree /\ [][NextParseTree]_vars

\* The payload lacks, at some entry, the space after the mode, the NUL after the
\* name, or some of the 20 digest bytes.
Malformed(cs) == \E k \in 1..Len(cs) : ~cs[k].sp \/ ~cs[k].nul \/ cs[k].hashLen < HashLen

\* C6: for every tree payload in which, at some entry, the space after the mode
\* or the NUL after the name is missing, or fewer than 20 digest bytes remain,
\* parseTreeContent fails with an error: it returns neither a shortened entry
\* list nor an entry with a truncated digest.
C6_MalformedTreeFails ==
    (tp.done /\ Malformed(tp.chunks)) => tp.threw

-----------------------------------------------------------------------------
(* The pack decoder                                                        *)

PackStr == <<80, 65, 67, 75>>
HelloStr == <<104, 101, 108, 108, 111, LF>>

\* packData[offset]: the byte, or undefined beyond the end or before the start.
Undefined == -1
ByteAt(data, offset) ==
    IF offset >= 0 /\ offset < Len(data) THEN data[offset + 1] ELSE Undefined

\* The operand of a bitwise operator: undefined converts to 0.
ToInt32(byte) == IF byte = Undefined THEN 0 ELSE byte

\* A 32-bit integer as the set of its one bits; the bitwise operators of the
\* loop act on these, and the result is read back as a signed 32-bit integer.
Pow2(n) == IF n = 0 THEN 1 ELSE 2 ^ n
BitsOf(x) == {b \in 0..30 : (x \div Pow2(b)) % 2 = 1}
ShiftLeft(bits, shift) == {b + (shift % 32) : b \in bits} \cap (0..31)
RECURSIVE SumBits(_)
SumBits(bits) ==
    IF bits = {} THEN 0
    ELSE LET b == CHOOSE x \in bits : TRUE IN Pow2(b) + SumBits(bits \ {b})
Int32Of(bits) ==
    IF 31 \in bits THEN (SumBits(bits \ {31}) - Pow2(30)) - Pow2(30) ELSE SumBits(bits)

\* Lines 108-112: while the last byte read has its high bit set, read the next
\* byte and fold its low 7 bits into the size at the current shift.
RECURSIVE SizeLoop(_, _, _, _, _)
SizeLoop(data, offset, byte, sizeBits, shift) ==
    IF ToInt32(byte) \div 128 = 1
    THEN LET next == ByteAt(data, offset)
         IN SizeLoop(data, offset + 1, next,
                     sizeBits \cup ShiftLeft(BitsOf(ToInt32(next) % 128), shift), shift + 7)
    ELSE [offset |-> offset, size |-> Int32Of(sizeBits)]

\* Lines 103-112: the entry header read at `offset`.
ReadEntryHeader(data, offset) ==
    LET byte == ByteAt(data, offset)
        type == (ToInt32(byte) \div 16) % 8
        rest == SizeLoop(data, offset + 1, byte, BitsOf(ToInt32(byte) % 16), 4)
    IN [type |-> type, size |-> rest.size, offset |-> rest.offset]

\* packData.subarray(offset): from offset to the end; a negative offset counts
\* from the end.
SubarrayFrom(data, offset) ==
    LET from == IF offset < 0
                THEN (IF Len(data) + offset < 0 THEN 0 ELSE Len(data) + offset)
                ELSE offset
    IN Subarray(data, from, Len(data))

\* data.readUInt32BE(at).
ReadUInt32BE(data, at) ==
    ((data[at + 1] * 256 + data[at + 2]) * 256 + data[at + 3]) * 256 + data[at + 4]

\* Lines 126-138: the kind of a type tag; <<>> for the default branch.
PackObjectType(type) ==
    CASE type = 1 -> CommitStr
      [] type = 2 -> TreeStr
      [] type = 3 -> BlobStr
      [] OTHER -> <<>>

\* One turn of the loop of lines 102-141 from the state p over the store objs:
\* the state and the store after it.
PackTurn(p, objs) ==
    LET h == ReadEntryHeader(p.data, p.offset)
        compressed == SubarrayFrom(p.data, h.offset)
        z == Inflate(compressed)
        objectType == PackObjectType(h.type)
        next(q) == [q EXCEPT !.i = p.i + 1,
                             !.pc = IF p.i + 1 < p.numObjects THEN "loop" ELSE "done"]
    IN IF h.type = 6 \/ h.type = 7
       THEN [pack |-> next([p EXCEPT !.offset = h.offset + h.size]), objects |-> objs]
       ELSE IF ~z.ok
       THEN [pack |-> [p EXCEPT !.pc = "error", !.err = "inflate", !.offset = h.offset],
             objects |-> objs]
       ELSE IF objectType = <<>>
       THEN [pack |-> [p EXCEPT !.pc = "error", !.err = "Unknown object type",
                                !.offset = h.offset + Len(compressed)],
             objects |-> objs]
       ELSE [pack |-> next([p EXCEPT !.offset = h.offset + Len(compressed)]),
             objects |-> PutObject(objs, objectType, z.data)]

-----------------------------------------------------------------------------
(* SpecPack: processPackfile on one pack stream                            *)

MaxPackEntries == 2

\* The header of a pack entry: the type tag and the low 4 bits of the size, then
\* the other bits of the size in groups of 7, each byte but the last flagged.
RECURSIVE SizeGroups(_)
SizeGroups(n) ==
    IF n < 128 THEN <<n>> ELSE <<128 + (n % 128)>> \o SizeGroups(n \div 128)

EntryHeaderBytes(type, size) ==
    IF size < 16 THEN <<type * 16 + size>>
    ELSE <<128 + type * 16 + (size % 16)>> \o SizeGroups(size \div 16)

\* A pack entry: its header, then a compressed member; a ref-delta (6) has the
\* 20-byte digest of its base before the member, an offset-delta (7) the
\* distance to its base.
EntryBytes(e) ==
    EntryHeaderBytes(e.type, Len(e.payload))
        \o (CASE e.type = 6 -> Sha1(HelloStr)
              [] e.type = 7 -> <<5>>
              [] OTHER -> <<>>)
        \o Deflate(e.payload)

RECURSIVE EntriesBytes(_)
EntriesBytes(es) == IF es = <<>> THEN <<>> ELSE EntryBytes(Head(es)) \o EntriesBytes(Tail(es))

UInt32BE(n) == <<0, 0, n \div 256, n % 256>>

\* A pack stream: signature, version 2, the object count, the entries and the
\* 20-byte checksum of all that.
PackBytes(signature, es) ==
    LET body == signature \o UInt32BE(2) \o UInt32BE(Len(es)) \o EntriesBytes(es)
    IN body \o Sha1(body)

PackPayloads == {<<>>, HelloStr, <<>> \o [k \in 1..17 |-> 96 + k]}
PackEntries == [type : {1, 2, 3, 4, 6, 7}, payload : PackPayloads]
PackEntryLists == UNION {[1..k -> PackEntries] : k \in 1..MaxPackEntries}
Signatures == {PackStr, <<80, 65, 67, 2>>}

\* The offset of the first header byte of entry k (k = Len(es) + 1: the end of
\* the entries).
EntryStart(es, k) == 12 + Len(EntriesBytes(SubSeq(es, 1, k - 1)))

InitPack ==
    /\ pack \in {[data |-> PackBytes(sig, es), entries |-> es, offset |-> 0, i |-> 0,
                  numObjects |-> 0, pc |-> "start", err |-> "", turnStart |-> 0] :
                    sig \in Signatures, es \in PackEntryLists}
    /\ objects = EmptyStore /\ rt = Idle /\ infl = Idle /\ tp = Idle /\ procs = Idle
    /\ stdout = <<>> /\ exited = FALSE /\ fsys = Idle /\ argv = Idle /\ ls = Idle

\* Lines 99-100: offset 12, then parsePackHeader.
PackStart ==
    /\ pack.pc = "start"
    /\ \/ /\ Utf8Decode(Subarray(pack.data, 0, 4)) # PackStr
          /\ pack' = [pack EXCEPT !.pc = "error", !.err = "Invalid pack file signature",
                                  !.offset = 12]
       \/ /\ Utf8Decode(Subarray(pack.data, 0, 4)) = PackStr
          /\ pack' = [pack EXCEPT !.offset = 12,
                                  !.numObjects = ReadUInt32BE(pack.data, 8),
                                  !.pc = IF 0 < ReadUInt32BE(pack.data, 8)
                                         THEN "loop" ELSE "done"]
    /\ UNCHANGED <<objects, PackFrame>>

PackIterate ==
    /\ pack.pc = "loop"
    /\ pack' = [PackTurn(pack, objects).pack EXCEPT !.turnStart = pack.offset]
    /\ objects' = PackTurn(pack, objects).objects
    /\ UNCHANGED PackFrame

NextPack == PackStart \/ PackIterate

SpecPack == InitPack /\ [][NextPack]_vars

IsLiteral(e) == e.type \in {1, 2, 3}
IsDelta(e) == e.type \in {6, 7}
EntriesOf(p) == {p.entries[k] : k \in 1..Len(p.entries)}
LiteralHashes(p) ==
    {ObjectHash(PackObjectType(e.type), e.payload) : e \in {x \in EntriesOf(p) : IsLiteral(x)}}
GoodSignature(p) == Subarray(p.data, 0, 4) = PackStr

\* The turn just done skipped a delta entry whose header it read at the entry's
\* first byte (turnStart: the cursor when the turn began).
SkippedDelta(p) ==
    /\ p.pc \in {"loop", "done"}
    /\ p.i >= 1
    /\ IsDelta(p.entries[p.i])
    /\ p.turnStart = EntryStart(p.entries, p.i)

\* C2: for a pack stream with a delta entry (type tag 6 or 7) among literal
\* entries, processPackfile stores every literal entry before and after it and
\* not the delta entry, and after skipping the delta entry the cursor is at the
\* first byte of the next entry, so that the end of the skipped region is never
\* taken for a later entry's header.
C2_DeltaSkipped ==
    ( /\ GoodSignature(pack)
      /\ \E e \in EntriesOf(pack) : IsDelta(e)
      /\ \A e \in EntriesOf(pack) : IsDelta(e) \/ IsLiteral(e) ) =>
        /\ SkippedDelta(pack) => pack.offset = EntryStart(pack.entries, pack.i + 1)
        /\ pack.pc # "error"
        /\ pack.pc = "done" => DOMAIN objects = LiteralHashes(pack)

\* C3: in a stream of objectCount literal entries the loop runs objectCount
\* times, each turn starts at the first header byte of its entry (the cursor has
\* advanced by exactly the compressed bytes of the entry before), and all the
\* objects are stored.
C3_LiteralCursor ==
    ( /\ GoodSignature(pack)
      /\ \A e \in EntriesOf(pack) : IsLiteral(e) ) =>
        /\ pack.pc # "error"
        /\ pack.pc = "loop" => pack.offset = EntryStart(pack.entries, pack.i + 1)
        /\ pack.pc = "done" =>
              /\ pack.i = Len(pack.entries)
              /\ DOMAIN objects = LiteralHashes(pack)

-----------------------------------------------------------------------------
(* The working directory and the order of its names                        *)

MaxDirents == 2

GitDirName == <<46, 103, 105, 116>>
NameA == <<97>>
NameUpperB == <<66>>
NameD == <<100>>
NameE == <<101>>
NameS == <<115>>

File(name, content) == [name |-> name, kind |-> "file", content |-> content, children |-> {}]
Dir(name, children) == [name |-> name, kind |-> "dir", content |-> <<>>, children |-> children]
Other(name) == [name |-> name, kind |-> "other", content |-> <<>>, children |-> {}]

DistinctNames(ds) == \A x, y \in ds : x.name = y.name => x = y
SmallSets(S) == {ds \in SUBSET S : Cardinality(ds) <= MaxDirents /\ DistinctNames(ds)}

FileContents == {<<>>, <<120>>}
Files == {File(n, c) : n \in {NameA, NameUpperB, NameE}, c \in FileContents}
SubFiles == {File(n, c) : n \in {NameA, NameUpperB}, c \in FileContents}
SubDirs == {Dir(NameD, ch) : ch \in SmallSets(SubFiles)}

\* The working directories: the repository's own .git, and at most MaxDirents
\* of: files, a sub-directory d of files, an entry s that is neither (a link).
WorkDirs ==
    {ds \cup {Dir(GitDirName, {})} : ds \in SmallSets(Files \cup SubDirs \cup {Other(NameS)})}

\* fs.promises.readdir: the dirents of a directory, in an order the file system
\* chooses.
Listings(dir) ==
    {order \in [1..Cardinality(dir) -> dir] :
        \A i, j \in 1..Cardinality(dir) : order[i] = order[j] => i = j}

\* The comparison of two sequences of numbers, element by element: -1, 0 or 1.
RECURSIVE CompareSeq(_, _)
CompareSeq(x, y) ==
    IF x = <<>> /\ y = <<>> THEN 0
    ELSE IF x = <<>> THEN -1
    ELSE IF y = <<>> THEN 1
    ELSE IF Head(x) < Head(y) THEN -1
    ELSE IF Head(x) > Head(y) THEN 1
    ELSE CompareSeq(Tail(x), Tail(y))

IsUpper(c) == c >= 65 /\ c <= 90
IsLower(c) == c >= 97 /\ c <= 122

\* a.localeCompare(b) under the default collation, for ASCII names: first by the
\* letters whatever their case (punctuation before digits before letters), and
\* between names equal in that, lower case before upper case.
PrimaryKey(c) ==
    IF IsLower(c) THEN 300 + (c - 97)
    ELSE IF IsUpper(c) THEN 300 + (c - 65)
    ELSE IF IsDigit(c) THEN 200 + (c - 48)
    ELSE c
TertiaryKey(c) == IF IsUpper(c) THEN 1 ELSE 0

LocaleCompare(a, b) ==
    LET primary == CompareSeq([k \in 1..Len(a) |-> PrimaryKey(a[k])],
                              [k \in 1..Len(b) |-> PrimaryKey(b[k])])
    IN IF primary # 0 THEN primary
       ELSE CompareSeq([k \in 1..Len(a) |-> TertiaryKey(a[k])],
                       [k \in 1..Len(b) |-> TertiaryKey(b[k])])

\* dirents.sort((a, b) => a.name.localeCompare(b.name)): a stable sort.
RECURSIVE InsertDirent(_, _)
InsertDirent(d, sorted) ==
    IF sorted = <<>> THEN <<d>>
    ELSE IF LocaleCompare(Head(sorted).name, d.name) <= 0
    THEN <<Head(sorted)>> \o InsertDirent(d, Tail(sorted))
    ELSE <<d>> \o sorted

RECURSIVE SortDirents(_)
SortDirents(dirents) ==
    IF dirents = <<>> THEN <<>>
    ELSE InsertDirent(dirents[Len(dirents)], SortDirents(SubSeq(dirents, 1, Len(dirents) - 1)))

\* Lines 381-386: the payload of a tree, `${mode} ${name}\0` and the 20 bytes
\* of the digest for each entry, in the order of the entries.
RECURSIVE TreeContent(_)
TreeContent(entries) ==
    IF entries = <<>> THEN <<>>
    ELSE Head(entries).mode \o <<SP>> \o Head(entries).name \o <<NUL>>
            \o FromHex(Head(entries).hash) \o TreeContent(Tail(entries))

-----------------------------------------------------------------------------
(* The commands: write-tree, commit-tree, hash-object                      *)

\* The calls of main() that the module makes when it is run: the one of lines
\* 551-556, under require.main === module, and the one of line 558.
MainCallSites == {552, 558}
Invocations == 1..Cardinality(MainCallSites)

AuthorStr ==
    <<65, 110, 117, 98, 104, 97, 98, 32, 68, 101, 98, 110, 97, 116, 104, 32, 60, 101, 120,
      97, 109, 112, 108, 101, 64, 101, 109, 97, 105, 108, 46, 99, 111, 109, 62>>
CommitterStr == AuthorStr
TimezoneStr == <<43, 48, 53, 51, 48>>
TreeWord == <<116, 114, 101, 101, SP>>
ParentWord == <<112, 97, 114, 101, 110, 116, SP>>
AuthorWord == <<97, 117, 116, 104, 111, 114, SP>>
CommitterWord == <<99, 111, 109, 109, 105, 116, 116, 101, 114, SP>>

\* lines.join("\n").
RECURSIVE Join(_, _)
Join(lines, sep) ==
    IF lines = <<>> THEN <<>>
    ELSE IF Len(lines) = 1 THEN Head(lines)
    ELSE Head(lines) \o sep \o Join(Tail(lines), sep)

\* A parent argument: not given (null or undefined), or a string.
NoParent == [given |-> FALSE, hash |-> <<>>]
Parent(hash) == [given |-> TRUE, hash |-> hash]
Truthy(parent) == parent.given /\ parent.hash # <<>>

\* Lines 409-417: the lines of the commit, joined by "\n".
CommitLines(treeHash, parentHash, message, timestamp) ==
    << TreeWord \o treeHash,
       IF Truthy(parentHash) THEN ParentWord \o parentHash.hash ELSE <<>>,
       AuthorWord \o AuthorStr \o <<SP>> \o DecStr(timestamp) \o <<SP>> \o TimezoneStr,
       CommitterWord \o CommitterStr \o <<SP>> \o DecStr(timestamp) \o <<SP>> \o TimezoneStr,
       <<>>,
       message,
       <<>> >>

CommitContent(treeHash, parentHash, message, timestamp) ==
    Join(CommitLines(treeHash, parentHash, message, timestamp), <<LF>>)

\* A call of writeTree: the directory, its sorted dirents, the index of the
\* loop, the entries pushed, and where the call is suspended.
Frame(name, dir) ==
    [name |-> name, dir |-> dir, dirents |-> <<>>, idx |-> 1, entries |-> <<>>,
     at |-> "readdir"]

NoArgs == [tree |-> <<>>, parent |-> NoParent, message |-> <<>>, file |-> <<>>]

\* An invocation of main, suspended at the first await of its command.
Proc(cmd, args, pc, pend, stack) ==
    [cmd |-> cmd, args |-> args, pc |-> pc, pend |-> pend, stack |-> stack,
     result |-> <<>>]

\* main, lines 455-536, up to the first await of the command the arguments name;
\* timestamp is what Date.now() gives a commit-tree.
StartCommand(av, root, timestamp) ==
    CASE av.cmd = "write-tree" ->
            Proc("write-tree", av.args, "run", <<>>, <<Frame(<<46>>, root)>>)
      [] av.cmd = "commit-tree" ->
            Proc("commit-tree", av.args, "write",
                 CommitContent(av.args.tree, av.args.parent, av.args.message, timestamp),
                 <<>>)
      [] av.cmd = "hash-object" ->
            Proc("hash-object", av.args, "read", <<>>, <<>>)

Top(p) == p.stack[Len(p.stack)]
SetTop(p, f) == [p EXCEPT !.stack[Len(p.stack)] = f]
InWriteTree(inv, at) ==
    /\ ~exited
    /\ inv \in DOMAIN procs
    /\ procs[inv].cmd = "write-tree"
    /\ procs[inv].pc = "run"
    /\ Top(procs[inv]).at = at

\* Lines 354-356: readdir answers, the dirents are sorted.
WtReaddir(inv) ==
    /\ InWriteTree(inv, "readdir")
    /\ \E order \in Listings(Top(procs[inv]).dir) :
          procs' = [procs EXCEPT ![inv] =
                      SetTop(@, [Top(@) EXCEPT !.dirents = SortDirents(order), !.at = "loop"])]
    /\ UNCHANGED <<objects, stdout, exited, fsys, argv, CommandFrame>>

\* Lines 358-378: the next dirent: .git is passed over, a file is read, a
\* directory is entered, anything else is passed over.
WtDirent(inv) ==
    /\ InWriteTree(inv, "loop")
    /\ Top(procs[inv]).idx <= Len(Top(procs[inv]).dirents)
    /\ LET top == Top(procs[inv])
           dirent == top.dirents[top.idx]
       IN \/ /\ dirent.name = GitDirName
             /\ procs' = [procs EXCEPT ![inv] = SetTop(@, [top EXCEPT !.idx = top.idx + 1])]
          \/ /\ dirent.name # GitDirName
             /\ dirent.kind = "file"
             /\ procs' = [procs EXCEPT ![inv] = SetTop(@, [top EXCEPT !.at = "readFile"])]
          \/ /\ dirent.name # GitDirName
             /\ dirent.kind = "dir"
             /\ procs' = [procs EXCEPT ![inv].stack =
                            Append(@, Frame(dirent.name, dirent.children))]
          \/ /\ dirent.name # GitDirName
             /\ dirent.kind = "other"
             /\ procs' = [procs EXCEPT ![inv] = SetTop(@, [top EXCEPT !.idx = top.idx + 1])]
    /\ UNCHANGED <<objects, stdout, exited, fsys, argv, CommandFrame>>

\* Lines 364-365: readFile answers, writeGitObject("blob", content) is called and
\* runs up to its first await.
WtFileRead(inv) ==
    /\ InWriteTree(inv, "readFile")
    /\ LET top == Top(procs[inv])
       IN procs' = [procs EXCEPT ![inv] =
                      [SetTop(@, [top EXCEPT !.at = "blob"])
                          EXCEPT !.pend = top.dirents[top.idx].content]]
    /\ UNCHANGED <<objects, stdout, exited, fsys, argv, CommandFrame>>

\* Lines 365-370: the blob is written; its entry is pushed.
WtBlobDone(inv) ==
    /\ InWriteTree(inv, "blob")
    /\ LET top == Top(procs[inv])
           content == procs[inv].pend
           entry == [mode |-> ModeFile, name |-> top.dirents[top.idx].name,
                     hash |-> ObjectHash(BlobStr, content)]
       IN /\ objects' = PutObject(objects, BlobStr, content)
          /\ procs' = [procs EXCEPT ![inv] =
                         [SetTop(@, [top EXCEPT !.entries = Append(top.entries, entry),
                                                !.idx = top.idx + 1, !.at = "loop"])
                             EXCEPT !.pend = <<>>]]
    /\ UNCHANGED <<stdout, exited, fsys, argv, CommandFrame>>

\* Lines 381-388: after the last dirent the payload of the tree is built and
\* writeGitObject("tree", treeContent) is called.
WtTreeWrite(inv) ==
    /\ InWriteTree(inv, "loop")
    /\ Top(procs[inv]).idx > Len(Top(procs[inv]).dirents)
    /\ LET top == Top(procs[inv])
       IN procs' = [procs EXCEPT ![inv] =
                      [SetTop(@, [top EXCEPT !.at = "tree"])
                          EXCEPT !.pend = TreeContent(top.entries)]]
    /\ UNCHANGED <<objects, stdout, exited, fsys, argv, CommandFrame>>

\* Line 388, then lines 372-377 in the caller, or lines 393-394 and 495-496 for
\* the tree of the whole directory: the tree is written; the calling writeTree
\* pushes its entry, or main writes the digest to standard output.
WtTreeDone(inv) ==
    /\ InWriteTree(inv, "tree")
    /\ LET p == procs[inv]
           top == Top(p)
           hash == ObjectHash(TreeStr, p.pend)
           caller == p.stack[Len(p.stack) - 1]
           entry == [mode |-> ModeDir, name |-> top.name, hash |-> hash]
       IN /\ objects' = PutObject(objects, TreeStr, p.pend)
          /\ \/ /\ Len(p.stack) > 1
                /\ procs' = [procs EXCEPT ![inv] =
                               [p EXCEPT !.pend = <<>>,
                                         !.stack = Append(SubSeq(p.stack, 1, Len(p.stack) - 2),
                                                     [caller EXCEPT
                                                        !.entries = Append(caller.entries, entry),
                                                        !.idx = caller.idx + 1])]]
                /\ UNCHANGED stdout
             \/ /\ Len(p.stack) = 1
                /\ procs' = [procs EXCEPT ![inv] =
                               [p EXCEPT !.pend = <<>>, !.stack = <<>>, !.pc = "done",
                                         !.result = hash]]
                /\ stdout' = Append(stdout, hash)
    /\ UNCHANGED <<exited, fsys, argv, CommandFrame>>

\* Lines 419-424 and 524: the commit is written; main writes its digest to
\* standard output.
CommitTreeDone(inv) ==
    /\ ~exited
    /\ inv \in DOMAIN procs
    /\ procs[inv].cmd = "commit-tree"
    /\ procs[inv].pc = "write"
    /\ objects' = PutObject(objects, CommitStr, procs[inv].pend)
    /\ procs' = [procs EXCEPT ![inv].pc = "done",
                              ![inv].result = ObjectHash(CommitStr, procs[inv].pend)]
    /\ stdout' = Append(stdout, ObjectHash(CommitStr, procs[inv].pend))
    /\ UNCHANGED <<exited, fsys, argv, CommandFrame>>

\* Lines 319-320: readFile answers, writeGitObject("blob", content) is called.
HashObjectRead(inv) ==
    /\ ~exited
    /\ inv \in DOMAIN procs
    /\ procs[inv].cmd = "hash-object"
    /\ procs[inv].pc = "read"
    /\ \E f \in fsys :
          /\ f.kind = "file"
          /\ f.name = procs[inv].args.file
          /\ procs' = [procs EXCEPT ![inv].pc = "write", ![inv].pend = f.content]
    /\ UNCHANGED <<objects, stdout, exited, fsys, argv, CommandFrame>>

\* Lines 320-321: the blob is written, its digest goes to standard output.
HashObjectDone(inv) ==
    /\ ~exited
    /\ inv \in DOMAIN procs
    /\ procs[inv].cmd = "hash-object"
    /\ procs[inv].pc = "write"
    /\ objects' = PutObject(objects, BlobStr, procs[inv].pend)
    /\ procs' = [procs EXCEPT ![inv].pc = "done",
                              ![inv].result = ObjectHash(BlobStr, procs[inv].pend)]
    /\ stdout' = Append(stdout, ObjectHash(BlobStr, procs[inv].pend))
    /\ UNCHANGED <<exited, fsys, argv, CommandFrame>>

\* The invocation is suspended on an input or output operation (readdir,
\* readFile, mkdir, writeFile).
AwaitsIO(p) ==
    /\ p.pc \in {"run", "read", "write"}
    /\ p.pc = "run" => Top(p).at \in {"readdir", "readFile", "blob", "tree"}

\* The operation an invocation awaits rejects: the catch of the command (lines
\* 322-324, 395-397) or of main (lines 541-547) reports it and calls
\* process.exit(1), which ends every invocation.
IOFail(inv) ==
    /\ ~exited
    /\ inv \in DOMAIN procs
    /\ AwaitsIO(procs[inv])
    /\ exited' = TRUE
    /\ UNCHANGED <<objects, procs, stdout, fsys, argv, CommandFrame>>

-----------------------------------------------------------------------------
(* SpecWriteTree: one call of write-tree on a working directory            *)

WriteTreeArgv == [cmd |-> "write-tree", args |-> NoArgs]

InitWriteTree ==
    /\ fsys \in WorkDirs
    /\ argv = WriteTreeArgv
    /\ procs = [inv \in {1} |-> StartCommand(argv, fsys, 0)]
    /\ objects = EmptyStore /\ stdout = <<>> /\ exited = FALSE
    /\ rt = Idle /\ infl = Idle /\ tp = Idle /\ pack = Idle /\ ls = Idle

NextWriteTree ==
    \/ \E inv \in Invocations : WtReaddir(inv)
    \/ \E inv \in Invocations : WtDirent(inv)
    \/ \E inv \in Invocations : WtFileRead(inv)
    \/ \E inv \in Invocations : WtBlobDone(inv)
    \/ \E inv \in Invocations : WtTreeWrite(inv)
    \/ \E inv \in Invocations : WtTreeDone(inv)
    \/ \E inv \in Invocations : IOFail(inv)

SpecWriteTree == InitWriteTree /\ [][NextWriteTree]_vars

\* The stored objects that are trees, and the entries of one.
StoredTrees == {h \in DOMAIN objects : ReadObject(objects, h).type = TreeStr}
EntriesOfTree(h) == ParseTreeContent(ReadObject(objects, h).content)

\* The frames of the calls of writeTree that have sorted their dirents.
SortedFrames ==
    {f \in UNION {{procs[inv].stack[k] : k \in 1..Len(procs[inv].stack)} : inv \in DOMAIN procs} :
        f.at # "readdir"}

\* C5: writeTree encodes the entries of a tree in ascending byte-wise order of
\* their names, also for names that differ in case, and the order in which the
\* directory listing returned them does not matter.
C5_ByteOrder ==
    /\ \A h \in StoredTrees :
          \A k \in 1..(Len(EntriesOfTree(h)) - 1) :
              CompareSeq(EntriesOfTree(h)[k].name, EntriesOfTree(h)[k + 1].name) = -1
    /\ \A f \in SortedFrames : \A order \in Listings(f.dir) : SortDirents(order) = f.dirents

\* C10: in every state of writeTree, the one a failure leaves behind included,
\* every digest that an entry of a stored tree names is the digest of a stored
\* object.
C10_ChildrenStoredFirst ==
    \A h \in StoredTrees :
        \A k \in 1..Len(EntriesOfTree(h)) : EntriesOfTree(h)[k].hash \in DOMAIN objects

\* A failure after the tree of the sub-directory, with a file in it, was stored.
C10_Witness ==
    /\ exited
    /\ procs[1].pc = "run"
    /\ \E h \in StoredTrees :
          /\ Len(EntriesOfTree(h)) = 2
          /\ \A k \in 1..2 : EntriesOfTree(h)[k].hash \in DOMAIN objects

-----------------------------------------------------------------------------
(* SpecCommitTree: one call of commit-tree                                 *)

Timestamps == {1700000000, 1700000001}
EmptyTreeHash == ObjectHash(TreeStr, <<>>)
TreeArgs == {EmptyTreeHash, ObjectHash(TreeStr, <<NUL>>), <<120>>}
ParentArgs == {NoParent, Parent(<<>>), Parent(ObjectHash(CommitStr, <<>>))}
MessageArgs == {<<109>>, <<>>, <<97, LF, LF, 98>>}

CommitTreeArgvs ==
    {[cmd |-> "commit-tree", args |-> [NoArgs EXCEPT !.tree = t, !.parent = p, !.message = m]] :
        t \in TreeArgs, p \in ParentArgs, m \in MessageArgs}

InitCommitTree ==
    /\ argv \in CommitTreeArgvs
    /\ fsys = {Dir(GitDirName, {})}
    /\ \E ts \in Timestamps : procs = [inv \in {1} |-> StartCommand(argv, fsys, ts)]
    /\ objects = EmptyStore /\ stdout = <<>> /\ exited = FALSE
    /\ rt = Idle /\ infl = Idle /\ tp = Idle /\ pack = Idle /\ ls = Idle

NextCommitTree ==
    \/ \E inv \in Invocations : CommitTreeDone(inv)
    \/ \E inv \in Invocations : IOFail(inv)

SpecCommitTree == InitCommitTree /\ [][NextCommitTree]_vars

StartsWith(str, prefix) == Len(str) >= Len(prefix) /\ SubSeq(str, 1, Len(prefix)) = prefix
EndsWith(str, suffix) ==
    Len(str) >= Len(suffix) /\ SubSeq(str, Len(str) - Len(suffix) + 1, Len(str)) = suffix

\* The lines of a payload before its first blank line, and the text after it.
FirstBlank(lines) ==
    LET blanks == {k \in 1..Len(lines) : lines[k] = <<>>}
    IN IF blanks = {} THEN Len(lines) + 1 ELSE CHOOSE k \in blanks : \A j \in blanks : k <= j
HeaderBlock(content) ==
    LET lines == Split(content, LF) IN SubSeq(lines, 1, FirstBlank(lines) - 1)
AfterHeader(content) ==
    LET lines == Split(content, LF)
    IN Join(SubSeq(lines, FirstBlank(lines) + 1, Len(lines)), <<LF>>)

IsIdentityLine(line, word, who) ==
    /\ StartsWith(line, word \o who \o <<SP>>)
    /\ EndsWith(line, <<SP>> \o TimezoneStr)

\* C4: the stored commit payload is the line 'tree <treeDigest>', a 'parent'
\* line if and only if a parent was supplied, the author line, the committer
\* line, one blank line, then the message: the header block up to the first
\* blank line holds the tree, author and committer lines with and without a
\* parent.
C4_CommitLayout ==
    \A inv \in DOMAIN procs :
        (procs[inv].cmd = "commit-tree" /\ procs[inv].pc = "done") =>
            LET a == procs[inv].args
                content == ReadObject(objects, procs[inv].result).content
                header == HeaderBlock(content)
                n == Len(header)
            IN /\ n = (IF Truthy(a.parent) THEN 4 ELSE 3)
               /\ header[1] = TreeWord \o a.tree
               /\ Truthy(a.parent) => header[2] = ParentWord \o a.parent.hash
               /\ IsIdentityLine(header[n - 1], AuthorWord, AuthorStr)
               /\ IsIdentityLine(header[n], CommitterWord, CommitterStr)
               /\ StartsWith(AfterHeader(content), a.message)

-----------------------------------------------------------------------------
(* SpecMain: one run of the program as the main module                     *)

HashObjectArgvs ==
    {[cmd |-> "hash-object", args |-> [NoArgs EXCEPT !.file = n]] : n \in {NameA}}

MainArgvs ==
    {WriteTreeArgv} \cup HashObjectArgvs
        \cup {av \in CommitTreeArgvs : av.args.tree = EmptyTreeHash /\ av.args.message = <<109>>}

InitMain ==
    /\ argv \in MainArgvs
    /\ fsys \in IF argv.cmd = "write-tree" THEN WorkDirs
                ELSE {{Dir(GitDirName, {}), File(NameA, c)} : c \in FileContents}
    /\ procs = << >>
    /\ objects = EmptyStore /\ stdout = <<>> /\ exited = FALSE
    /\ rt = Idle /\ infl = Idle /\ tp = Idle /\ pack = Idle /\ ls = Idle

\* Lines 551-558: each call of main runs to the first await of its command
\* before the module goes on to the next call.
ModuleEntry ==
    /\ ~exited
    /\ procs = << >>
    /\ \E ts \in [Invocations -> Timestamps] :
          /\ \A i, j \in Invocations : i <= j => ts[i] <= ts[j]
          /\ procs' = [inv \in Invocations |-> StartCommand(argv, fsys, ts[inv])]
    /\ UNCHANGED <<objects, stdout, exited, fsys, argv, CommandFrame>>

NextMain ==
    \/ ModuleEntry
    \/ \E inv \in Invocations : WtReaddir(inv)
    \/ \E inv \in Invocations : WtDirent(inv)
    \/ \E inv \in Invocations : WtFileRead(inv)
    \/ \E inv \in Invocations : WtBlobDone(inv)
    \/ \E inv \in Invocations : WtTreeWrite(inv)
    \/ \E inv \in Invocations : WtTreeDone(inv)
    \/ \E inv \in Invocations : CommitTreeDone(inv)
    \/ \E inv \in Invocations : HashObjectRead(inv)
    \/ \E inv \in Invocations : HashObjectDone(inv)
    \/ \E inv \in Invocations : IOFail(inv)

SpecMain == InitMain /\ [][NextMain]_vars

\* The invocation is inside writeGitObject: called, its writeFile not completed.
WriteInProgress(p) ==
    \/ p.pc = "write"
    \/ p.pc = "run" /\ Top(p).at \in {"blob", "tree"}

\* C9: one run of the program executes the selected command once: at every
\* moment at most one object write is in progress, and the digest of
\* hash-object, write-tree or commit-tree is written to standard output once.
C9_SingleThread ==
    /\ Cardinality(DOMAIN procs) <= 1
    /\ Cardinality({inv \in DOMAIN procs : WriteInProgress(procs[inv])}) <= 1
    /\ Len(stdout) <= 1

-----------------------------------------------------------------------------
(* SpecLsTree: one call of lsTree on a repository that write-tree filled   *)

\* writeTree run to completion on a directory: the store it leaves and the
\* digest it returns (lines 352-389, the loop from dirent idx).
RECURSIVE WriteTreeLoop(_, _, _, _)
WriteTreeLoop(objs, dirents, idx, entries) ==
    IF idx > Len(dirents)
    THEN [objs |-> PutObject(objs, TreeStr, TreeContent(entries)),
          hash |-> ObjectHash(TreeStr, TreeContent(entries))]
    ELSE LET dirent == dirents[idx]
         IN IF dirent.name = GitDirName \/ dirent.kind = "other"
            THEN WriteTreeLoop(objs, dirents, idx + 1, entries)
            ELSE IF dirent.kind = "file"
            THEN WriteTreeLoop(PutObject(objs, BlobStr, dirent.content), dirents, idx + 1,
                               Append(entries, [mode |-> ModeFile, name |-> dirent.name,
                                                hash |-> ObjectHash(BlobStr, dirent.content)]))
            ELSE LET sub == WriteTreeLoop(objs,
                                SortDirents(CHOOSE order \in Listings(dirent.children) : TRUE),
                                1, <<>>)
                 IN WriteTreeLoop(sub.objs, dirents, idx + 1,
                                  Append(entries, [mode |-> ModeDir, name |-> dirent.name,
                                                   hash |-> sub.hash]))

WriteTree(objs, dir) ==
    WriteTreeLoop(objs, SortDirents(CHOOSE order \in Listings(dir) : TRUE), 1, <<>>)

\* A digest that names no object of the store.
MissingHash == [k \in 1..(2 * HashLen) |-> 48]

\* Lines 335-340: the line console.log writes for an entry.
LsLine(options, entry) ==
    IF options.nameOnly THEN entry.name
    ELSE entry.mode \o <<SP>> \o (IF entry.mode = ModeDir THEN TreeStr ELSE BlobStr)
            \o <<SP>> \o entry.hash \o <<TAB>> \o entry.name

\* A test that takes every entry of mode 40000 for one to descend into.
LsDescends_WhateverTheOption(options, entry) == entry.mode = ModeDir

\* Line 342: the test that makes lsTree call itself on an entry.
LsDescends(options, entry) == options.recursive /\ entry.mode = ModeDir

\* A call of lsTree: the digest, the parsed entries, the index of the loop,
\* and where the call is suspended.
LsCall(treeHash) == [hash |-> treeHash, entries |-> <<>>, idx |-> 1, at |-> "read"]

LsOptions == [recursive : BOOLEAN, nameOnly : BOOLEAN]

InitLsTree ==
    /\ fsys \in WorkDirs
    /\ objects = WriteTree(EmptyStore, fsys).objs
    /\ \E treeHash \in {WriteTree(EmptyStore, fsys).hash, MissingHash}, options \in LsOptions :
          /\ argv = [cmd |-> "ls-tree", args |-> [NoArgs EXCEPT !.tree = treeHash],
                     options |-> options]
          /\ ls = [stack |-> <<LsCall(treeHash)>>, reads |-> <<>>, pc |-> "run"]
    /\ stdout = <<>> /\ exited = FALSE
    /\ rt = Idle /\ infl = Idle /\ tp = Idle /\ pack = Idle /\ procs = Idle

InLsTree(at) ==
    /\ ~exited
    /\ ls.pc = "run"
    /\ ls.stack[Len(ls.stack)].at = at

\* Lines 330-332 and 345-348: the object is read, inflated and parsed; a
\* rejection is reported by the catch, which calls process.exit(1).
LsRead ==
    /\ InLsTree("read")
    /\ LET top == ls.stack[Len(ls.stack)]
           object == ReadObject(objects, top.hash)
       IN IF object.ok
          THEN /\ ls' = [ls EXCEPT !.stack[Len(ls.stack)] =
                                      [top EXCEPT !.entries = ParseTreeContent(object.content),
                                                  !.at = "loop"],
                                   !.reads = Append(@, top.hash)]
               /\ UNCHANGED exited
          ELSE /\ ls' = [ls EXCEPT !.reads = Append(@, top.hash)]
               /\ exited' = TRUE
    /\ UNCHANGED <<objects, stdout, LsTreeFrame>>

\* Lines 334-344: the line of the next entry is written; with the recursive
\* option lsTree is called on an entry of mode 40000.
LsEntry ==
    /\ InLsTree("loop")
    /\ LET top == ls.stack[Len(ls.stack)]
       IN /\ top.idx <= Len(top.entries)
          /\ stdout' = Append(stdout, LsLine(argv.options, top.entries[top.idx]))
          /\ ls' = [ls EXCEPT !.stack =
                      IF LsDescends(argv.options, top.entries[top.idx])
                      THEN Append([@ EXCEPT ![Len(ls.stack)].idx = top.idx + 1],
                                  LsCall(top.entries[top.idx].hash))
                      ELSE [@ EXCEPT ![Len(ls.stack)].idx = top.idx + 1]]
    /\ UNCHANGED <<objects, exited, LsTreeFrame>>

\* After the last entry the call returns, to the lsTree that awaits it or to
\* main.
LsReturn ==
    /\ InLsTree("loop")
    /\ LET top == ls.stack[Len(ls.stack)]
       IN /\ top.idx > Len(top.entries)
          /\ ls' = [ls EXCEPT !.stack = SubSeq(@, 1, Len(@) - 1),
                              !.pc = IF Len(ls.stack) = 1 THEN "done" ELSE "run"]
    /\ UNCHANGED <<objects, stdout, exited, LsTreeFrame>>

NextLsTree == LsRead \/ LsEntry \/ LsReturn

SpecLsTree == InitLsTree /\ [][NextLsTree]_vars

\* The lines of a whole walk: for each entry in stored order its own line,
\* then, for a sub-tree under the recursive option, the lines of the sub-tree.
RECURSIVE LinesOfTree(_, _, _)
RECURSIVE LinesOfEntries(_, _, _)
LinesOfTree(objs, options, hash) ==
    IF ReadObject(objs, hash).ok
    THEN LinesOfEntries(objs, options, ParseTreeContent(ReadObject(objs, hash).content))
    ELSE <<>>
LinesOfEntries(objs, options, entries) ==
    IF entries = <<>> THEN <<>>
    ELSE <<LsLine(options, Head(entries))>>
            \o (IF options.recursive /\ Head(entries).mode = ModeDir
                THEN LinesOfTree(objs, options, Head(entries).hash) ELSE <<>>)
            \o LinesOfEntries(objs, options, Tail(entries))

IsPrefix(s, t) == Len(s) <= Len(t) /\ SubSeq(t, 1, Len(s)) = s

\* C8: lsTree writes one line per entry in stored sibling order; without the
\* recursive option it reads no object but the tree it was given; with it, the
\* line of an entry of mode 40000 comes first, then the lines of its whole
\* sub-tree, depth first, and only then the line of the next sibling.
C8_EmissionOrder ==
    ls.pc \in {"run", "done"} =>
        /\ IsPrefix(stdout, LinesOfTree(objects, argv.options, argv.args.tree))
        /\ ls.pc = "done" => stdout = LinesOfTree(objects, argv.options, argv.args.tree)
        /\ ~argv.options.recursive =>
              \A k \in 1..Len(ls.reads) : k = 1 /\ ls.reads[k] = argv.args.tree

\* A finished recursive walk of a tree that holds the sub-tree d, of two
\* entries, and after it the file e.
C8_Witness ==
    /\ ls.pc = "done"
    /\ argv.options.recursive
    /\ ~argv.options.nameOnly
    /\ Len(stdout) = 4
    /\ Len(ls.reads) = 2
    /\ stdout[1] = LsLine(argv.options, [mode |-> ModeDir, name |-> NameD, hash |-> ls.reads[2]])
    /\ SubSeq(stdout[4], Len(stdout[4]) - 1, Len(stdout[4])) = <<TAB>> \o NameE

=============================================================================
